---- MODULE Spec2Model ----
(***************************************************************************)
(* A model of the two scripts of batch-pddl-generator:                     *)
(*   generate-instances.py  evaluate_configuration, one optimizer trial    *)
(*   collect-instances.py   main, the loop over the plan directories       *)
(* Times are counted in hundredths of a second (the resolution of the      *)
(* logged "runtime: <t>s real" line), so 0.1 s is 10 and a bound of 1 s is *)
(* 100. Scores are counted in the same unit: the penalty 100 is 10000.     *)
(***************************************************************************)
EXTENDS Integers, Sequences, FiniteSets, TLC

VARIABLES
  \* collect-instances.py, main()
  pc,                \* "loop": in the for loop, "done": summary printed, "crashed": uncaught exception
  trace,             \* the plan directories the glob has yielded in this run, each with the branch taken
  max_values,        \* domain -> (key -> largest value)
  seen_task_hashes,  \* domain -> set of digests
  seen_runtimes,     \* domain -> (bound -> count)
  dest,              \* the destination tree: domain -> directory
  \* the experiment directory of a repeated collection
  expdir,            \* the plan directories of the experiment directory
  order,             \* the order in which the glob yields them in this run
  run,               \* 1: first collection, 2: second collection into the same destination
  first_run,         \* how the first collection ended: <<>> or <<[pc, dest]>>
  \* generate-instances.py, evaluate_configuration()
  gpc,               \* the position inside evaluate_configuration, "optimizer" between trials
  trial,             \* the trial being evaluated
  runhistory         \* the finished trials, oldest first

cvars == <<pc, trace, max_values, seen_task_hashes, seen_runtimes, dest>>
rvars == <<expdir, order, run, first_run>>
gvars == <<gpc, trial, runhistory>>
vars == <<pc, trace, max_values, seen_task_hashes, seen_runtimes, dest,
          expdir, order, run, first_run, gpc, trial, runhistory>>

(***************************************************************************)
(* Bounds and the small sets the inputs are drawn from.                    *)
(***************************************************************************)
MaxDirs == 3
MaxRerunDirs == 2
MaxTrials == 3

Domains == {"gripper", "miconic"}
Texts == {"X", "Y"}
None == <<>>
Some(v) == <<v>>

\* Python's sorted() on the parameter names that occur.
KeyOrder == <<"a", "b", "planner_runtime">>
P1 == ("a" :> 1)
P2 == ("a" :> 2)
P3 == ("a" :> 1) @@ ("b" :> 1)

Hundredths(seconds) == seconds * 100

\* collect-instances.py:15
RUNTIME_BOUNDS ==
  <<Hundredths(1), Hundredths(10), Hundredths(20), Hundredths(50), Hundredths(100),
    Hundredths(200), Hundredths(500), Hundredths(1000), Hundredths(2000),
    Hundredths(5000), Hundredths(10000)>>

RECURSIVE SeqToSet(_)
SeqToSet(s) == IF s = <<>> THEN {} ELSE {Head(s)} \cup SeqToSet(Tail(s))

RECURSIVE SumOver(_, _)
SumOver(f, S) ==
  IF S = {} THEN 0
  ELSE LET x == CHOOSE y \in S : TRUE IN f[x] + SumOver(f, S \ {x})

(***************************************************************************)
(* generate-instances.py: the record store_results writes.                 *)
(***************************************************************************)
ARGS_domain == "gripper"

store_results(cfg, seed, exitcode, runtime) ==
  [domain |-> ARGS_domain, parameters |-> cfg, seed |-> seed,
   planner_exitcode |-> exitcode, runtime |-> runtime]

\* max(0.1, runtime)
MIN_RUNTIME == 10

\* return 100
PENALTY == Hundredths(100)

\* What the optimizer passes to evaluate_configuration.
TrialInputs == { [cfg |-> P1, seed |-> 0], [cfg |-> P2, seed |-> 1] }
ExitCodes == {0, 1, 137}
\* run.log: no "runtime: <t>s real" line, or the logged time
Logs == {None, Some(0), Some(250)}

parse_runtime_unclamped(log) == log[1]

\* parse_runtime on a log that holds the line: float(match.group(1)), then max(0.1, runtime)
parse_runtime(log) == IF log[1] > MIN_RUNTIME THEN log[1] ELSE MIN_RUNTIME

score_unnegated(runtime) == IF runtime # None THEN runtime[1] ELSE PENALTY

\* return -runtime if runtime is not None, else 100
score(runtime) == IF runtime # None THEN 0 - runtime[1] ELSE PENALTY

(***************************************************************************)
(* collect-instances.py: the plan directories of an experiment directory.  *)
(***************************************************************************)
AllFiles == {"properties.json", "problem.pddl", "domain.pddl"}

Properties(domain, parameters, seed, exitcode, runtime) ==
  [domain |-> domain, parameters |-> parameters, seed |-> seed,
   planner_exitcode |-> exitcode, runtime |-> runtime]

PlanDir(files, props, problem) == [files |-> files, props |-> props, problem |-> problem]

SolvedRuns ==
  { [parameters |-> P1, seed |-> 0, runtime |-> 10],
    [parameters |-> P2, seed |-> 0, runtime |-> Hundredths(10)],
    [parameters |-> P3, seed |-> 1, runtime |-> Hundredths(10000) + 1],
    [parameters |-> P1, seed |-> 1, runtime |-> Hundredths(10)] }

SolvedDirs ==
  { PlanDir(AllFiles, Properties(d, r.parameters, r.seed, 0, Some(r.runtime)), t) :
      d \in Domains, r \in SolvedRuns, t \in Texts }

FailedDirs == { PlanDir(AllFiles, Properties("gripper", P1, 0, 1, None), "X") }

\* A trial that wrote no properties.json: the generator failed, or the trial never finished.
NoPropertiesDirs ==
  { PlanDir(fs, Properties("gripper", P1, 0, 1, None), "X") :
      fs \in {{}, {"problem.pddl", "domain.pddl"}} }

NoProblemDirs ==
  { PlanDir({"properties.json", "domain.pddl"}, Properties("gripper", P1, 0, 0, Some(10)), "X") }

NoDomainDirs ==
  { PlanDir({"properties.json", "problem.pddl"}, Properties("miconic", P2, 0, 0, Some(10)), "Y") }

PlanDirs == SolvedDirs \cup FailedDirs \cup NoPropertiesDirs \cup NoProblemDirs \cup NoDomainDirs

(***************************************************************************)
(* collect-instances.py: helpers.                                          *)
(***************************************************************************)
\* The MD5 digest of a text: a fixed function of the text.
MD5 == ("X" :> "md5-9f1c") @@ ("Y" :> "md5-4e07")

compute_md5_hash(s) == MD5[s]

hash_task(plan_dir) == compute_md5_hash(plan_dir.problem)

record_max_values(parameters, max_domain_values) ==
  [key \in DOMAIN max_domain_values \cup DOMAIN parameters |->
     IF key \notin DOMAIN parameters THEN max_domain_values[key]
     ELSE IF key \notin DOMAIN max_domain_values \/ parameters[key] > max_domain_values[key]
          THEN parameters[key]
          ELSE max_domain_values[key]]

Increment(domain_runtimes, bound) ==
  IF bound \in DOMAIN domain_runtimes
  THEN [domain_runtimes EXCEPT ![bound] = @ + 1]
  ELSE domain_runtimes @@ (bound :> 1)

RECURSIVE record_runtime_from(_, _, _)
record_runtime_from(i, domain_runtimes, runtime) ==
  IF i > Len(RUNTIME_BOUNDS) THEN domain_runtimes
  ELSE IF runtime <= RUNTIME_BOUNDS[i] THEN Increment(domain_runtimes, RUNTIME_BOUNDS[i])
  ELSE record_runtime_from(i + 1, domain_runtimes, runtime)

RECURSIVE record_runtime_strict_from(_, _, _)
record_runtime_strict_from(i, domain_runtimes, runtime) ==
  IF i > Len(RUNTIME_BOUNDS) THEN domain_runtimes
  ELSE IF runtime < RUNTIME_BOUNDS[i] THEN Increment(domain_runtimes, RUNTIME_BOUNDS[i])
  ELSE record_runtime_strict_from(i + 1, domain_runtimes, runtime)

record_runtime_strict(domain_runtimes, runtime) ==
  record_runtime_strict_from(1, domain_runtimes, runtime)

record_runtime(domain_runtimes, runtime) == record_runtime_from(1, domain_runtimes, runtime)

print_task_count(seen_hashes) == [domain \in Domains |-> Cardinality(seen_hashes[domain])]

\* sorted(props["parameters"])
sorted(keys) == SelectSeq(KeyOrder, LAMBDA k : k \in keys)

\* utils.join_parameters: the parameter values in the order of their sorted names.
join_parameters(parameters) ==
  LET ks == sorted(DOMAIN parameters) IN [i \in 1..Len(ks) |-> parameters[ks[i]]]

\* f"p-{parameters}-{seed}.pddl": the dash-separated fields after "p".
problem_name(props) == Append(join_parameters(props.parameters), props.seed)

EmptyDir == [exists |-> FALSE, files |-> <<>>, domain_pddl |-> FALSE, README |-> None]

mkdir_exist_not_ok(tree, domain) ==
  IF tree[domain].exists THEN [ok |-> FALSE, tree |-> tree]
  ELSE [ok |-> TRUE, tree |-> [tree EXCEPT ![domain].exists = TRUE]]

\* target_dir.mkdir(parents=True, exist_ok=True)
mkdir(tree, domain) == [ok |-> TRUE, tree |-> [tree EXCEPT ![domain].exists = TRUE]]

\* shutil.copy2(plan_dir / "problem.pddl", target_dir / problem_name)
copy_problem(tree, domain, name, text) ==
  [tree EXCEPT ![domain].files =
     [n \in DOMAIN @ \cup {name} |-> IF n = name THEN text ELSE @[n]]]

\* shutil.copy2(plan_dir / "domain.pddl", target_dir) and the README
write_domain_and_readme(tree, domain, parameters) ==
  [tree EXCEPT ![domain].domain_pddl = TRUE,
               ![domain].README = Some(sorted(DOMAIN parameters))]

is_solved_always(props) == TRUE

\* props["planner_exitcode"] != 0: continue
is_solved(props) == props.planner_exitcode = 0

seen_in_any_domain(seen, domain, hash) == \E d \in Domains : hash \in seen[d]

\* hash in seen_task_hashes[domain]
is_duplicate(seen, domain, hash) == hash \in seen[domain]

(***************************************************************************)
(* collect-instances.py: main().                                           *)
(***************************************************************************)
Continue(plan_dir, branch) ==
  /\ trace' = Append(trace, [dir |-> plan_dir, branch |-> branch])
  /\ UNCHANGED <<pc, max_values, seen_task_hashes, seen_runtimes, dest>>

\* One iteration of the for loop over plan_dirs.
LoopBody(plan_dir) ==
  IF "properties.json" \notin plan_dir.files THEN Continue(plan_dir, "no_properties")
  ELSE IF ~is_solved(plan_dir.props) THEN Continue(plan_dir, "planner_failed")
  ELSE IF "problem.pddl" \notin plan_dir.files
  THEN \* hash_task: FileNotFoundError, outside the try
       /\ pc' = "crashed"
       /\ trace' = Append(trace, [dir |-> plan_dir, branch |-> "no_problem_file"])
       /\ UNCHANGED <<max_values, seen_task_hashes, seen_runtimes, dest>>
  ELSE LET props == plan_dir.props
           domain == props.domain
           runtime == props.runtime[1]
           hash == hash_task(plan_dir)
           values == props.parameters @@ ("planner_runtime" :> runtime)
           made == mkdir(dest, domain)
           copied == copy_problem(made.tree, domain, problem_name(props), plan_dir.problem)
       IN IF is_duplicate(seen_task_hashes, domain, hash) THEN Continue(plan_dir, "duplicate")
          ELSE IF props.runtime = None
          THEN \* a null runtime: record_max_values or record_runtime compares None with a
               \* number and raises TypeError, after line 100 and after the parameters
               \* were recorded (the null planner_runtime entry itself is not represented)
               /\ seen_task_hashes' = [seen_task_hashes EXCEPT ![domain] = @ \cup {hash}]
               /\ max_values' = [max_values EXCEPT ![domain] = record_max_values(props.parameters, @)]
               /\ pc' = "crashed"
               /\ trace' = Append(trace, [dir |-> plan_dir, branch |-> "runtime_null"])
               /\ UNCHANGED <<seen_runtimes, dest>>
          ELSE /\ seen_task_hashes' = [seen_task_hashes EXCEPT ![domain] = @ \cup {hash}]
               /\ max_values' = [max_values EXCEPT ![domain] = record_max_values(values, @)]
               /\ seen_runtimes' = [seen_runtimes EXCEPT ![domain] = record_runtime(@, runtime)]
               /\ IF ~made.ok
                  THEN \* mkdir raises (never with exist_ok=True)
                       /\ pc' = "crashed"
                       /\ dest' = dest
                       /\ trace' = Append(trace, [dir |-> plan_dir, branch |-> "mkdir_failed"])
                  ELSE IF "domain.pddl" \notin plan_dir.files
                  THEN \* shutil.copy2 of domain.pddl: FileNotFoundError
                       /\ pc' = "crashed"
                       /\ dest' = copied
                       /\ trace' = Append(trace, [dir |-> plan_dir, branch |-> "no_domain_file"])
                  ELSE /\ pc' = pc
                       /\ dest' = write_domain_and_readme(copied, domain, props.parameters)
                       /\ trace' = Append(trace, [dir |-> plan_dir, branch |-> "retained"])

\* The glob yields one more plan directory of an arbitrary experiment directory.
ProcessPlanDir ==
  /\ pc = "loop"
  /\ Len(trace) < MaxDirs
  /\ \E plan_dir \in PlanDirs : LoopBody(plan_dir)
  /\ UNCHANGED <<rvars, gvars>>

\* The glob is exhausted: the three summaries are printed.
PrintSummary ==
  /\ pc = "loop"
  /\ pc' = "done"
  /\ UNCHANGED <<trace, max_values, seen_task_hashes, seen_runtimes, dest, rvars, gvars>>

NoTrial == [cfg |-> P1, seed |-> 0, legal |-> FALSE, generated |-> FALSE, planner_ran |-> FALSE,
            exitcode |-> 0, log |-> None, runtime |-> None, written |-> <<>>,
            outcome |-> "running", score |-> 0]

InitCollect ==
  /\ pc = "loop"
  /\ trace = <<>>
  /\ max_values = [d \in Domains |-> <<>>]
  /\ seen_task_hashes = [d \in Domains |-> {}]
  /\ seen_runtimes = [d \in Domains |-> <<>>]
  /\ dest = [d \in Domains |-> EmptyDir]

InitGenerate ==
  /\ gpc = "optimizer"
  /\ trial = NoTrial
  /\ runhistory = <<>>

Init ==
  /\ InitCollect
  /\ expdir = <<>> /\ order = <<>> /\ run = 1 /\ first_run = <<>>
  /\ InitGenerate

Next == ProcessPlanDir \/ PrintSummary

Spec == Init /\ [][Next]_vars

(***************************************************************************)
(* Collection run twice on one experiment directory into one destination.  *)
(***************************************************************************)
SeqsUpTo(S, n) == UNION { [1..k -> S] : k \in 1..n }

GlobOrders(s) ==
  { [i \in 1..Len(s) |-> s[p[i]]] :
      p \in { q \in [1..Len(s) -> 1..Len(s)] : \A i, j \in 1..Len(s) : q[i] = q[j] => i = j } }

InitRerun ==
  /\ InitCollect
  /\ expdir \in SeqsUpTo(PlanDirs, MaxRerunDirs)
  /\ order \in GlobOrders(expdir)
  /\ run = 1
  /\ first_run = <<>>
  /\ InitGenerate

\* The glob yields the next plan directory of the experiment directory.
ProcessNextPlanDir ==
  /\ pc = "loop"
  /\ Len(trace) < Len(order)
  /\ LoopBody(order[Len(trace) + 1])
  /\ UNCHANGED <<rvars, gvars>>

GlobExhausted ==
  /\ pc = "loop"
  /\ Len(trace) = Len(order)
  /\ pc' = "done"
  /\ UNCHANGED <<trace, max_values, seen_task_hashes, seen_runtimes, dest, rvars, gvars>>

\* The script is started again: main() builds fresh accumulators, the destination
\* tree is what the first run left, and the glob may yield another order.
RunAgain ==
  /\ run = 1
  /\ pc \in {"done", "crashed"}
  /\ first_run' = Some([pc |-> pc, dest |-> dest, order |-> order])
  /\ run' = 2
  /\ order' \in GlobOrders(expdir)
  /\ pc' = "loop"
  /\ trace' = <<>>
  /\ max_values' = [d \in Domains |-> <<>>]
  /\ seen_task_hashes' = [d \in Domains |-> {}]
  /\ seen_runtimes' = [d \in Domains |-> <<>>]
  /\ UNCHANGED <<dest, expdir, gvars>>

NextRerun == ProcessNextPlanDir \/ GlobExhausted \/ RunAgain

SpecRerun == InitRerun /\ [][NextRerun]_vars

(***************************************************************************)
(* generate-instances.py: evaluate_configuration(), called by the          *)
(* optimizer once per trial.                                               *)
(***************************************************************************)
\* The call returns `value` to the optimizer.
Return(t, value) ==
  /\ runhistory' = Append(runhistory, [t EXCEPT !.outcome = "returned", !.score = value])
  /\ trial' = NoTrial
  /\ gpc' = "optimizer"

\* An exception leaves evaluate_configuration.
Raise(t) ==
  /\ runhistory' = Append(runhistory, [t EXCEPT !.outcome = "raised"])
  /\ trial' = NoTrial
  /\ gpc' = "optimizer"

\* smac.optimize() calls tae_runner=evaluate_configuration for the next trial.
StartTrial ==
  /\ gpc = "optimizer"
  /\ Len(runhistory) < MaxTrials
  /\ \E in \in TrialInputs : trial' = [NoTrial EXCEPT !.cfg = in.cfg, !.seed = in.seed]
  /\ gpc' = "adapt_parameters"
  /\ UNCHANGED <<runhistory, cvars, rvars>>

\* DOMAIN.adapt_parameters(cfg): IllegalConfiguration is caught, return 100
AdaptParameters ==
  /\ gpc = "adapt_parameters"
  /\ \/ /\ trial' = [trial EXCEPT !.legal = TRUE]
        /\ gpc' = "generate_input_files"
        /\ UNCHANGED runhistory
     \/ Return(trial, PENALTY)
  /\ UNCHANGED <<cvars, rvars>>

GenerateInputFilesUncaught ==
  /\ gpc = "generate_input_files"
  /\ \/ /\ trial' = [trial EXCEPT !.generated = TRUE]
        /\ gpc' = "run_planner"
        /\ UNCHANGED runhistory
     \/ Raise(trial)
  /\ UNCHANGED <<cvars, rvars>>

\* utils.generate_input_files(...): CalledProcessError is caught, return 100
GenerateInputFiles ==
  /\ gpc = "generate_input_files"
  /\ \/ /\ trial' = [trial EXCEPT !.generated = TRUE]
        /\ gpc' = "run_planner"
        /\ UNCHANGED runhistory
     \/ Return(trial, PENALTY)
  /\ UNCHANGED <<cvars, rvars>>

\* exitcode = RUNNER.run_planner(plan_dir): the planner runs and leaves run.log
RunPlanner ==
  /\ gpc = "run_planner"
  /\ \E exitcode \in ExitCodes, log \in Logs :
       trial' = [trial EXCEPT !.planner_ran = TRUE, !.exitcode = exitcode, !.log = log]
  /\ gpc' = "parse_runtime"
  /\ UNCHANGED <<runhistory, cvars, rvars>>

\* runtime = parse_runtime(plan_dir) if exitcode == 0 else None
ParseRuntime ==
  /\ gpc = "parse_runtime"
  /\ IF trial.exitcode # 0
     THEN /\ trial' = [trial EXCEPT !.runtime = None]
          /\ gpc' = "store_results"
          /\ UNCHANGED runhistory
     ELSE IF trial.log = None
     THEN \* re.search finds nothing: match.group raises AttributeError
          Raise(trial)
     ELSE /\ trial' = [trial EXCEPT !.runtime = Some(parse_runtime(trial.log))]
          /\ gpc' = "store_results"
          /\ UNCHANGED runhistory
  /\ UNCHANGED <<cvars, rvars>>

\* store_results(cfg, seed, plan_dir, exitcode, runtime) writes properties.json
StoreResults ==
  /\ gpc = "store_results"
  /\ trial' = [trial EXCEPT !.written =
                 Append(@, store_results(trial.cfg, trial.seed, trial.exitcode, trial.runtime))]
  /\ gpc' = "return"
  /\ UNCHANGED <<runhistory, cvars, rvars>>

\* show_error_log, xz run.log, and the returned score
ReturnScore ==
  /\ gpc = "return"
  /\ Return(trial, score(trial.runtime))
  /\ UNCHANGED <<cvars, rvars>>

NextGenerate ==
  StartTrial \/ AdaptParameters \/ GenerateInputFiles \/ RunPlanner \/ ParseRuntime
    \/ StoreResults \/ ReturnScore

SpecGenerate == Init /\ [][NextGenerate]_vars

(***************************************************************************)
(* Properties of collect-instances.py.                                     *)
(***************************************************************************)
Steps == 1..Len(trace)
HasProperties(i) == "properties.json" \in trace[i].dir.files
PropsOf(i) == trace[i].dir.props
\* The entries whose digest was added to seen_task_hashes.
Kept(i) == trace[i].branch \in {"retained", "no_domain_file"}
KeptIn(domain) == { i \in Steps : Kept(i) /\ PropsOf(i).domain = domain }
\* The entries that reach the duplicate test of a domain with a given digest.
Candidates(domain, hash) ==
  { i \in Steps : /\ HasProperties(i)
                  /\ PropsOf(i).planner_exitcode = 0
                  /\ "problem.pddl" \in trace[i].dir.files
                  /\ PropsOf(i).domain = domain
                  /\ MD5[trace[i].dir.problem] = hash }
Hashes == { MD5[t] : t \in Texts }
Count(domain_runtimes, bound) ==
  IF bound \in DOMAIN domain_runtimes THEN domain_runtimes[bound] ELSE 0
BucketSum(domain_runtimes) == SumOver(domain_runtimes, DOMAIN domain_runtimes)
Bounds == SeqToSet(RUNTIME_BOUNDS)
LargestBound == CHOOSE b \in Bounds : \A c \in Bounds : c <= b
Accumulators == <<max_values, seen_task_hashes, seen_runtimes, dest>>
Yielded == Len(trace') = Len(trace) + 1
Latest == trace'[Len(trace')]

\* C1: a plan directory whose record has a non-zero planner_exitcode changes neither
\* the destination tree nor max_values, seen_task_hashes or seen_runtimes, and whenever
\* an iteration changes any of them the record it read has planner_exitcode 0.
C1_OnlyExitCodeZeroRetained ==
  [][Yielded =>
       /\ ("properties.json" \in Latest.dir.files /\ Latest.dir.props.planner_exitcode # 0)
            => Accumulators' = Accumulators
       /\ Accumulators' # Accumulators
            => ("properties.json" \in Latest.dir.files /\ Latest.dir.props.planner_exitcode = 0)]_vars

C1_Witness ==
  \E i, j \in Steps :
    /\ i < j
    /\ trace[i].branch = "retained"
    /\ trace[j].branch = "planner_failed"
    /\ MD5[trace[j].dir.problem] \notin seen_task_hashes[PropsOf(j).domain]

\* C3: per (domain, digest) at most one record is retained, it is the first record with
\* exit code 0 that was met for that domain and digest, every later one is skipped as a
\* duplicate, and the digest sets are per domain: a text met in two domains is kept in both.
C3_FirstPerDomainAndDigest ==
  \A d \in Domains, h \in Hashes :
    LET cand == Candidates(d, h)
        kept == { i \in cand : Kept(i) }
    IN /\ Cardinality(kept) <= 1
       /\ (h \in seen_task_hashes[d]) <=> (cand # {})
       /\ cand # {} =>
            /\ kept = { CHOOSE i \in cand : \A j \in cand : i <= j }
            /\ \A j \in cand \ kept : trace[j].branch = "duplicate"
            /\ \A i \in kept : problem_name(PropsOf(i)) \in DOMAIN dest[d].files

C3_Witness ==
  \E i, j, k \in Steps :
    /\ i < j /\ j < k
    /\ Kept(i) /\ Kept(k) /\ trace[j].branch = "duplicate"
    /\ PropsOf(i).domain = PropsOf(j).domain
    /\ PropsOf(i).domain # PropsOf(k).domain
    /\ trace[i].dir.problem = trace[k].dir.problem

\* C10: every retained record increments exactly the bucket of the smallest bound that
\* is at least its runtime, and none when the runtime exceeds the largest bound; no other
\* record changes a bucket. So a domain's buckets sum to at most its number of retained
\* instances, with equality exactly when no retained runtime exceeds the largest bound.
C10_RuntimeBuckets ==
  \A d \in Domains :
    LET rt(i) == PropsOf(i).runtime[1]
        over == { i \in KeptIn(d) : rt(i) > LargestBound }
    IN /\ DOMAIN seen_runtimes[d] \subseteq Bounds
       /\ \A b \in Bounds :
            Count(seen_runtimes[d], b) =
              Cardinality({ i \in KeptIn(d) :
                              rt(i) <= b /\ \A c \in Bounds : c < b => rt(i) > c })
       /\ BucketSum(seen_runtimes[d]) = Cardinality(KeptIn(d)) - Cardinality(over)
       /\ BucketSum(seen_runtimes[d]) <= Cardinality(seen_task_hashes[d])
       /\ (BucketSum(seen_runtimes[d]) = Cardinality(seen_task_hashes[d])) <=> (over = {})

C10_Witness ==
  \E d \in Domains : \E i, j, k \in Steps :
    /\ {i, j} \subseteq KeptIn(d)
    /\ PropsOf(i).runtime[1] = Hundredths(10)
    /\ PropsOf(j).runtime[1] > LargestBound
    /\ trace[k].branch = "duplicate" /\ PropsOf(k).domain = d
    /\ Count(seen_runtimes[d], Hundredths(10)) = 1
    /\ BucketSum(seen_runtimes[d]) = 1

\* C4: after collection has finished, the README of every domain with a retained
\* instance lists the sorted parameter names of every retained record of that domain.
C4_ReadmeMatchesEveryRetained ==
  pc = "done" =>
    \A d \in Domains : seen_task_hashes[d] # {} =>
      \A i \in KeptIn(d) : dest[d].README = Some(sorted(DOMAIN PropsOf(i).parameters))

\* C6: a plan directory that lacks properties.json, problem.pddl or domain.pddl is
\* skipped: the loop goes on, and the accumulators and the destination tree stay as
\* they were.
C6_MissingFilesSkipped ==
  [][(Yielded /\ Latest.dir.files # AllFiles) =>
       (pc' = "loop" /\ Accumulators' = Accumulators)]_vars

\* C7: after collection has finished, every domain directory holds as many problem
\* files as the task count reported for the domain.
C7_FilesMatchTaskCount ==
  pc = "done" =>
    \A d \in Domains : Cardinality(DOMAIN dest[d].files) = print_task_count(seen_task_hashes)[d]

(***************************************************************************)
(* Properties of a repeated collection.                                    *)
(***************************************************************************)
Ended == pc \in {"done", "crashed"}
InstanceFiles(tree) == [d \in Domains |-> tree[d].files]
FileNames(tree) == [d \in Domains |-> DOMAIN tree[d].files]

\* C2 as stated: a second collection over the same plan directories, in whatever
\* order the glob yields them, leaves the set of instance files of the first (both
\* collections having reached their summary).
C2_SameFilesInAnyOrder ==
  (run = 2 /\ pc = "done" /\ first_run[1].pc = "done")
    => FileNames(dest) = FileNames(first_run[1].dest)

\* C2 amended: a second collection that meets the plan directories in the order of
\* the first ends as the first did and leaves the same instance files per domain.
C2_SameFilesInSameOrder ==
  (run = 2 /\ Ended /\ order = first_run[1].order) =>
    /\ pc = first_run[1].pc
    /\ InstanceFiles(dest) = InstanceFiles(first_run[1].dest)

C2_Witness ==
  /\ run = 2 /\ pc = "done" /\ order = first_run[1].order
  /\ \E i, j \in Steps : trace[i].branch = "retained" /\ trace[j].branch = "duplicate"
  /\ \E d \in Domains : DOMAIN dest[d].files # {}

(***************************************************************************)
(* Properties of generate-instances.py.                                    *)
(***************************************************************************)
Trials == 1..Len(runhistory)
Illegal(t) == ~t.legal
GeneratorFailed(t) == t.legal /\ ~t.generated
PlannerFailed(t) == t.planner_ran /\ t.exitcode # 0

\* C5: a trial that ends with an illegal configuration, a generator failure or a
\* non-zero planner exit returns the penalty score to the optimizer, and the call
\* returns normally so that the optimizer is back in its loop.
C5_FailuresReturnPenalty ==
  /\ \A n \in Trials :
       LET t == runhistory[n] IN
         (Illegal(t) \/ GeneratorFailed(t) \/ PlannerFailed(t))
           => (t.outcome = "returned" /\ t.score = PENALTY)
  /\ (gpc = "optimizer" /\ Len(runhistory) < MaxTrials) => ENABLED StartTrial

C5_Witness ==
  \E i, j, k \in Trials :
    /\ i < j /\ j < k
    /\ Illegal(runhistory[i]) /\ GeneratorFailed(runhistory[j]) /\ PlannerFailed(runhistory[k])
    /\ gpc = "optimizer"

\* C8: a finished trial in which the planner ran has written exactly one record, with
\* the five keys; a trial that ended before the planner ran has written none; and a
\* record is only ever written once the planner has finished.
C8_OneRecordPerPlannerRun ==
  /\ \A n \in Trials :
       LET t == runhistory[n] IN
         /\ Len(t.written) = (IF t.planner_ran THEN 1 ELSE 0)
         /\ \A r \in 1..Len(t.written) :
              DOMAIN t.written[r] = {"domain", "parameters", "seed", "planner_exitcode", "runtime"}
  /\ trial.written # <<>> => trial.planner_ran

\* C9: in every trial that wrote a record, the record's runtime is non-null exactly
\* when its planner_exitcode is 0, a non-null runtime is at least 0.1 s, and the score
\* is minus the runtime when it is non-null and the penalty otherwise; every solved
\* trial scores strictly below every failed one, and every record collection would
\* retain carries a runtime.
C9_RuntimeAndScore ==
  LET wrote == { n \in Trials : runhistory[n].written # <<>> }
      rec(n) == runhistory[n].written[1]
  IN /\ \A n \in wrote :
          /\ (rec(n).runtime # None) <=> (rec(n).planner_exitcode = 0)
          /\ rec(n).runtime # None => rec(n).runtime[1] >= MIN_RUNTIME
          /\ runhistory[n].outcome = "returned"
          /\ runhistory[n].score =
               (IF rec(n).runtime # None THEN 0 - rec(n).runtime[1] ELSE PENALTY)
          /\ is_solved(rec(n)) => rec(n).runtime # None
     /\ \A m \in wrote, n \in Trials :
          (/\ rec(m).planner_exitcode = 0
           /\ runhistory[n].outcome = "returned"
           /\ (n \notin wrote \/ rec(n).planner_exitcode # 0))
            => runhistory[m].score < runhistory[n].score

C9_Witness ==
  \E m, n \in Trials :
    /\ runhistory[m].written # <<>> /\ runhistory[n].written # <<>>
    /\ runhistory[m].written[1].planner_exitcode = 0
    /\ runhistory[m].log = Some(0)
    /\ runhistory[m].score = 0 - MIN_RUNTIME
    /\ runhistory[n].written[1].planner_exitcode # 0
    /\ runhistory[n].score = PENALTY

====
